---- MODULE Spec2Model ----
(***************************************************************************)
(* Build-time scripts of the browser tree:                                 *)
(*   native_client_sdk/src/doc/doxygen/rst_index.py   (index generator)    *)
(*   remoting/tools/build/remoting_ios_localize.py    (iOS string files)   *)
(*                                                                         *)
(* A Python string is a sequence of one-character strings; path fragments  *)
(* and fixed pieces of output that no operation looks into are kept as one *)
(* element (".lproj", "Localizable.strings").                              *)
(***************************************************************************)
EXTENDS Integers, Sequences, FiniteSets, TLC

VARIABLES
  \* ---- rst_index.GetName called on one filename
  nm_filename,    \* the argument
  nm_pc,          \* "call" | "done"
  nm_result,      \* what the call gave: [status, value, printed]
  \* ---- rst_index.MakeReSTListFromFiles called on one directory
  ls_dir,         \* os.listdir(path): a set of filenames
  ls_matches,     \* the inclusion patterns
  ls_excludes,    \* the exclusion patterns, or None
  ls_pc,          \* "call" | "done"
  ls_result,      \* [status, entries, printed]
  \* ---- rst_index.main
  ix_channel, ix_c, ix_cpp, ix_root,  \* the parsed options
  ix_dir,         \* the input directory: its set of filenames, or None when
                  \* it cannot be listed
  ix_pc,          \* position in main()
  ix_ran,         \* the generators that were entered
  ix_file,        \* the output file
  ix_exit,        \* how main() ended
  ix_stdout,      \* diagnostics printed
  \* ---- remoting_ios_localize.DoMain
  lo_mode,        \* "print_inputs" | "print_outputs" | "generate"
  lo_to_dir, lo_locales, lo_id_map, lo_packs, lo_ids, lo_template,
  lo_pc,          \* position in DoMain()/generate()
  lo_locale,      \* index of the locale being processed
  lo_id,          \* index of the next ID of the localizable list
  lo_fs,          \* the files under to_dir: path -> content
  lo_touched,     \* the paths this invocation opened for writing
  lo_open,        \* the path of the file currently open for writing, or None
  lo_stdout,      \* what DoMain returned to be printed
  lo_error,       \* the exception that ended generate(), or None
  lo_exit         \* how the process ended

nm_vars == <<nm_filename, nm_pc, nm_result>>
ls_vars == <<ls_dir, ls_matches, ls_excludes, ls_pc, ls_result>>
ix_vars == <<ix_channel, ix_c, ix_cpp, ix_root, ix_dir, ix_pc, ix_ran,
             ix_file, ix_exit, ix_stdout>>
lo_vars == <<lo_mode, lo_to_dir, lo_locales, lo_id_map, lo_packs, lo_ids,
             lo_template, lo_pc, lo_locale, lo_id, lo_fs, lo_touched,
             lo_open, lo_stdout, lo_error, lo_exit>>
vars == <<nm_vars, ls_vars, ix_vars, lo_vars>>

\* An optional value is <<>> (None) or <<v>>.
None == <<>>
Some(v) == <<v>>

\* GetName and MakeReSTListFromFiles before they are called
NoResult == [status |-> "none"]

(***************************************************************************)
(* Strings                                                                 *)
(***************************************************************************)
LowerCase ==
  <<"a","b","c","d","e","f","g","h","i","j","k","l","m",
    "n","o","p","q","r","s","t","u","v","w","x","y","z">>

UpperCase ==
  <<"A","B","C","D","E","F","G","H","I","J","K","L","M",
    "N","O","P","Q","R","S","T","U","V","W","X","Y","Z">>

\* str.upper() on one character
Upper(ch) ==
  IF \E i \in DOMAIN LowerCase : LowerCase[i] = ch
  THEN UpperCase[CHOOSE i \in DOMAIN LowerCase : LowerCase[i] = ch]
  ELSE ch

IsDigit(ch) == ch \in {"0","1","2","3","4","5","6","7","8","9"}

\* s[n:]
Drop(s, n) == SubSeq(s, n + 1, Len(s))

\* s[:n]
Take(s, n) == SubSeq(s, 1, n)

startswith(s, p) == Len(s) >= Len(p) /\ Take(s, Len(p)) = p

endswith(s, p) == Len(s) >= Len(p) /\ Drop(s, Len(s) - Len(p)) = p

\* s.rfind(ch), 1-based, 0 when ch is not in s
RFind(s, ch) ==
  IF \E i \in 1..Len(s) : s[i] = ch
  THEN CHOOSE i \in 1..Len(s) :
         s[i] = ch /\ \A j \in (i + 1)..Len(s) : s[j] # ch
  ELSE 0

\* os.path.splitext(p)[0]: cut at the last dot, unless it is before the last
\* separator or only dots precede it in the name
splitext(p) ==
  LET sepIndex == RFind(p, "/")
      dotIndex == RFind(p, ".")
  IN  IF dotIndex > sepIndex
         /\ \E k \in (sepIndex + 1)..(dotIndex - 1) : p[k] # "."
      THEN Take(p, dotIndex - 1)
      ELSE p

\* s.replace('__', '_'): non-overlapping occurrences, left to right
RECURSIVE ReplaceDoubleUnderscore(_)
ReplaceDoubleUnderscore(s) ==
  IF s = <<>> THEN <<>>
  ELSE IF Len(s) >= 2 /\ s[1] = "_" /\ s[2] = "_"
       THEN <<"_">> \o ReplaceDoubleUnderscore(Drop(s, 2))
       ELSE <<s[1]>> \o ReplaceDoubleUnderscore(Drop(s, 1))

SeqsUpTo(S, n) == UNION {[1..k -> S] : k \in 0..n}

(***************************************************************************)
(* rst_index.GetName                                                       *)
(***************************************************************************)
P_struct_ppb   == <<"s","t","r","u","c","t","_","p","_","p","_","b","_","_">>
P_struct_ppp   == <<"s","t","r","u","c","t","_","p","_","p","_","p","_","_">>
P_struct_pp    == <<"s","t","r","u","c","t","_","p","_","p","_","_">>
P_union_pp     == <<"u","n","i","o","n","_","p","_","p","_","_">>
P_classpp      == <<"c","l","a","s","s","p","p","_","1","_","1","_">>
P_classpp_ext  == <<"c","l","a","s","s","p","p","_","1","_","1",
                    "e","x","t","_","1","_","1","_">>
P_classpp_int  == <<"c","l","a","s","s","p","p","_","1","_","1",
                    "i","n","t","e","r","n","a","l","_","1","_","1","_">>
P_structpp_int == <<"s","t","r","u","c","t","p","p","_","1","_","1",
                    "i","n","t","e","r","n","a","l","_","1","_","1","_">>

S_8h    == <<"_","8","h">>
S_dot_h == <<".","h">>
S_html  == <<".","h","t","m","l">>
Ext_    == <<"E","x","t",":",":">>
Internal_ == <<"I","n","t","e","r","n","a","l",":",":">>

\* The if/elif chain of GetName, in the order of the code: the prefix tested,
\* the number of characters sliced off, the initial value of out.
PrefixRulesAmbiguous ==
  << [prefix |-> P_struct_ppb,   skip |-> 7,  out |-> <<>>],
     [prefix |-> P_struct_ppp,   skip |-> 7,  out |-> <<>>],
     [prefix |-> P_struct_pp,    skip |-> 7,  out |-> <<>>],
     [prefix |-> P_union_pp,     skip |-> 6,  out |-> <<>>],
     [prefix |-> Take(P_classpp, 11), skip |-> 11, out |-> <<>>],
     [prefix |-> P_classpp_ext,  skip |-> 19, out |-> Ext_],
     [prefix |-> P_classpp_int,  skip |-> 24, out |-> Internal_],
     [prefix |-> P_structpp_int, skip |-> 25, out |-> Internal_] >>

PrefixRules ==
  << [prefix |-> P_struct_ppb,   skip |-> 7,  out |-> <<>>],
     [prefix |-> P_struct_ppp,   skip |-> 7,  out |-> <<>>],
     [prefix |-> P_struct_pp,    skip |-> 7,  out |-> <<>>],
     [prefix |-> P_union_pp,     skip |-> 6,  out |-> <<>>],
     [prefix |-> P_classpp,      skip |-> 12, out |-> <<>>],
     [prefix |-> P_classpp_ext,  skip |-> 19, out |-> Ext_],
     [prefix |-> P_classpp_int,  skip |-> 24, out |-> Internal_],
     [prefix |-> P_structpp_int, skip |-> 25, out |-> Internal_] >>

\* the branches of the chain whose test succeeds on f
Hits(f) == {i \in DOMAIN PrefixRules : startswith(f, PrefixRules[i].prefix)}

\* the branch an if/elif chain takes: the first whose test succeeds
FirstHit(f) == CHOOSE i \in Hits(f) : \A j \in Hits(f) : i <= j

\* The loop over mangle, from position i on, with the loop's cap and out.
RECURSIVE DecodeLoop(_, _, _, _)
DecodeLoop(mangle, i, cap, out) ==
  IF i > Len(mangle) THEN out
  ELSE LET ch == mangle[i] IN
       IF ch = "_" /\ ~cap
       THEN DecodeLoop(mangle, i + 1, TRUE, out)          \* cap = True; continue
       ELSE LET cap1 == IF ch = "_" THEN FALSE ELSE cap   \* second underscore
                ch1  == IF cap1 THEN Upper(ch) ELSE ch
            IN  DecodeLoop(mangle, i + 1, FALSE, out \o <<ch1>>)

DecodeCapFalse(mangle, out) == DecodeLoop(mangle, 1, FALSE, out)

\* cap = True, then the loop
Decode(mangle, out) == DecodeLoop(mangle, 1, TRUE, out)

StripVersionNever(out) == out

\* re.sub(r'_\d_\d$', '', out)
StripVersion(out) ==
  LET n == Len(out) IN
  IF n >= 4 /\ out[n - 3] = "_" /\ IsDigit(out[n - 2])
     /\ out[n - 1] = "_" /\ IsDigit(out[n])
  THEN Take(out, n - 4)
  ELSE out

\* the body of one prefix branch followed by the loop and the return
ApplyRule(i, f) ==
  StripVersion(Decode(Drop(f, PrefixRules[i].skip), PrefixRules[i].out))

NoMatch(f) == <<"No match: ">> \o f

\* GetName(filename): [status |-> "return", value |-> the display name], or
\* the exception raised; printed is what went to stdout.  In the last branch
\* nothing has assigned mangle when the loop reads it.
GetName(filename) ==
  LET f == splitext(filename) IN
  IF Hits(f) # {}
  THEN [status |-> "return", value |-> ApplyRule(FirstHit(f), f),
        printed |-> <<>>]
  ELSE IF endswith(f, S_8h)
  THEN [status |-> "return",
        value |-> ReplaceDoubleUnderscore(Take(f, Len(f) - 3)) \o S_dot_h,
        printed |-> <<>>]
  ELSE [status |-> "UnboundLocalError", value |-> <<>>,
        printed |-> <<NoMatch(f)>>]

(***************************************************************************)
(* GetName called on one filename                                          *)
(***************************************************************************)
MaxBody == 4

BodyAlphabet == {"_", "a", "1"}

S_group == <<"g","r","o","u","p","_">>

\* 'struct_p_p_b__audio_1_1' and the name doxygen gives PPB_Audio_1_1
F_audio_1_1 == P_struct_ppb \o <<"a","u","d","i","o","_","1","_","1">>
F_Audio_1_1 ==
  P_struct_ppb \o <<"_","a","u","d","i","o","_","_","1","_","_","1">>

N_PPB_Audio   == <<"P","P","B","_","A","u","d","i","o">>
N_PPB_audio11 == <<"P","P","B","_","a","u","d","i","o","1","1">>

NameHeads ==
  {PrefixRules[i].prefix : i \in DOMAIN PrefixRules}
    \cup {<<>>, S_group, <<"c","l","a","s","s","p","p","_","1","_","1">>}

F_index == <<"i","n","d","e","x">> \o S_html

\* a head, a body, an optional version number, an optional '_8h', an
\* optional extension; and the names above
NameInputs ==
  ({h \o b \o t \o e \o x :
      h \in NameHeads, b \in SeqsUpTo(BodyAlphabet, MaxBody),
      t \in {<<>>, <<"_","_","1","_","_","1">>},
      e \in {<<>>, S_8h}, x \in {<<>>, S_html}}
     \cup {n \o x : n \in {F_audio_1_1, F_Audio_1_1}, x \in {<<>>, S_html}}
     \cup {F_index})
    \ {<<>>}

NmIdle == nm_filename = <<>> /\ nm_pc = "idle" /\ nm_result = NoResult

NmInit == nm_filename \in NameInputs /\ nm_pc = "call" /\ nm_result = NoResult

NmGetName ==
  /\ nm_pc = "call"
  /\ nm_result' = GetName(nm_filename)
  /\ nm_pc' = "done"
  /\ UNCHANGED <<nm_filename, ls_vars, ix_vars, lo_vars>>

\* what GetName works on, and whether it is in one of the eight families
NmRoot == splitext(nm_filename)

NmInFamily == nm_pc = "done" /\ Hits(NmRoot) # {}

NmRule == PrefixRules[FirstHit(NmRoot)]

NmMangle == Drop(NmRoot, NmRule.skip)

(***************************************************************************)
(* rst_index.MakeReSTListFromFiles                                         *)
(***************************************************************************)
\* os.listdir(path): the names in some order, or OSError
Listed(names) == [status |-> "return", names |-> names]
Unlistable    == [status |-> "OSError", names |-> <<>>]

\* the characters of the filenames used here, in the order of their codes
CharOrder ==
  <<"-", ".", "1", "8">> \o UpperCase \o <<"_">> \o LowerCase

Ord(ch) == CHOOSE i \in DOMAIN CharOrder : CharOrder[i] = ch

\* a < b for Python strings
RECURSIVE StrLess(_, _)
StrLess(a, b) ==
  IF b = <<>> THEN FALSE
  ELSE IF a = <<>> THEN TRUE
  ELSE IF a[1] = b[1] THEN StrLess(Tail(a), Tail(b))
  ELSE Ord(a[1]) < Ord(b[1])

StrLessEq(a, b) == a = b \/ StrLess(a, b)

\* list.sort() on a list of strings
RECURSIVE Insert(_, _)
Insert(x, sorted) ==
  IF sorted = <<>> THEN <<x>>
  ELSE IF StrLess(x, sorted[1]) THEN <<x>> \o sorted
  ELSE <<sorted[1]>> \o Insert(x, Tail(sorted))

RECURSIVE Sort(_)
Sort(list) ==
  IF list = <<>> THEN <<>>
  ELSE Insert(list[Len(list)], Sort(Take(list, Len(list) - 1)))

\* fnmatch.fnmatch(name, pat) with the wildcards '*' and '?'; the patterns
\* used here have no character class
RECURSIVE fnmatch(_, _)
fnmatch(name, pat) ==
  IF pat = <<>> THEN name = <<>>
  ELSE IF pat[1] = "*"
       THEN \E k \in 0..Len(name) : fnmatch(Drop(name, k), Tail(pat))
  ELSE IF name = <<>> THEN FALSE
  ELSE (pat[1] = "?" \/ pat[1] = name[1]) /\ fnmatch(Tail(name), Tail(pat))

\* fnmatch.filter(names, pat): the names that match, in the order of names
RECURSIVE filter(_, _)
filter(names, pat) ==
  IF names = <<>> THEN <<>>
  ELSE (IF fnmatch(names[1], pat) THEN <<names[1]>> ELSE <<>>)
         \o filter(Tail(names), pat)

\* for match in matches: good_files.extend(fnmatch.filter(dir_files, match))
RECURSIVE ExtendAll(_, _)
ExtendAll(dir_files, matches) ==
  IF matches = <<>> THEN <<>>
  ELSE filter(dir_files, matches[1]) \o ExtendAll(dir_files, Tail(matches))

\* [filename for filename in good_files if not fnmatch.fnmatch(filename, exclude)]
RECURSIVE Without(_, _)
Without(good_files, exclude) ==
  IF good_files = <<>> THEN <<>>
  ELSE (IF fnmatch(good_files[1], exclude) THEN <<>> ELSE <<good_files[1]>>)
         \o Without(Tail(good_files), exclude)

\* if excludes: for exclude in excludes: ...
RECURSIVE ExcludeAll(_, _)
ExcludeAll(good_files, excludes) ==
  IF excludes = <<>> THEN good_files
  ELSE ExcludeAll(Without(good_files, excludes[1]), Tail(excludes))

\* good_files after good_files.sort(); excludes is optional, and "if excludes"
\* skips None and the empty list alike
GoodFiles(dir_files, matches, excludes) ==
  Sort(ExcludeAll(ExtendAll(dir_files, matches),
                  IF excludes = None THEN <<>> ELSE excludes[1]))

\* MakeReSTListFromFiles(prefix, path, matches, excludes), listing being
\* what os.listdir(path) gives: the entries (display name, prefix, filename)
\* of the list, or the first exception.
MakeReSTListFromFiles(prefix, listing, matches, excludes) ==
  IF listing.status # "return"
  THEN [status |-> listing.status, entries |-> <<>>, printed |-> <<>>]
  ELSE
  LET good_files == GoodFiles(listing.names, matches, excludes)
      names == [i \in DOMAIN good_files |-> GetName(good_files[i])]
      bad   == {i \in DOMAIN good_files : names[i].status # "return"}
      first == CHOOSE i \in bad : \A j \in bad : i <= j
  IN  IF bad = {}
      THEN [status |-> "return",
            entries |-> [i \in DOMAIN good_files |->
                           <<names[i].value, prefix, good_files[i]>>],
            printed |-> <<>>]
      ELSE [status |-> names[first].status, entries |-> <<>>,
            printed |-> names[first].printed]

(***************************************************************************)
(* MakeReSTListFromFiles called on one directory                           *)
(***************************************************************************)
MaxDirFiles == 3
MaxPatterns == 2

F_a_8h      == <<"a">> \o S_8h
F_b_8h_html == <<"b">> \o S_8h \o S_html
F_union_a   == P_union_pp \o <<"a">>
F_ab        == <<"a","b">>

ListFiles == {F_a_8h, F_b_8h_html, F_union_a, F_ab, F_index}

ListPatterns ==
  {<<"*">>, <<"a","*">>, <<"*","_","8","h","*">>, <<"u","*">>, <<"?","b">>}

\* the lists os.listdir can give: no name twice, any order
Listings(files, n) ==
  {l \in SeqsUpTo(files, n) : \A i, j \in DOMAIN l : i # j => l[i] # l[j]}

S_prefix == <<"pepper_dev/c">>

LsIdle ==
  /\ ls_dir = <<>> /\ ls_matches = <<>> /\ ls_excludes = None
  /\ ls_pc = "idle" /\ ls_result = NoResult

LsInit ==
  /\ ls_dir \in Listings(ListFiles, MaxDirFiles)
  /\ ls_matches \in SeqsUpTo(ListPatterns, MaxPatterns) \ {<<>>}
  /\ ls_excludes \in {None} \cup {Some(e) : e \in SeqsUpTo(ListPatterns, 1)}
  /\ ls_pc = "call"
  /\ ls_result = NoResult

LsMakeReSTListFromFiles ==
  /\ ls_pc = "call"
  /\ ls_result' = MakeReSTListFromFiles(S_prefix, Listed(ls_dir), ls_matches, ls_excludes)
  /\ ls_pc' = "done"
  /\ UNCHANGED <<ls_dir, ls_matches, ls_excludes, nm_vars, ix_vars, lo_vars>>

(***************************************************************************)
(* rst_index: the generators and main                                      *)
(***************************************************************************)
C_stable == <<"s","t","a","b","l","e">>
C_beta   == <<"b","e","t","a">>
C_dev    == <<"d","e","v">>
C_canary == <<"c","a","n","a","r","y">>

VALID_CHANNELS == {C_stable, C_beta, C_dev}

S_members == <<"-","m","e","m","b","e","r","s">>

C_INTERFACE_WILDCARDS == <<P_struct_ppp \o <<"*">>, P_struct_ppb \o <<"*">> >>

C_STRUCT_WILDCARDS == <<P_struct_pp \o <<"*">>, P_union_pp \o <<"*">> >>

CPP_CLASSES_WILDCARDS ==
  << <<"c","l","a","s","s","p","p","_","1","_","1","*">> \o S_html >>

CPP_CLASSES_EXCLUDES == << <<"*">> \o S_members \o <<"*">> >>

FILE_WILDCARDS == << <<"*">> \o S_8h \o S_html >>

MakeTitleCase(s) == <<Upper(s[1])>> \o Tail(s)

MakeChannelAlt(channel) ==
  IF channel = C_stable THEN <<>> ELSE <<"-">> \o channel

\* the lists of a page, built one after the other: the first that raises
\* ends the building
RECURSIVE BuildLists(_, _)
BuildLists(lists, done) ==
  IF lists = <<>>
  THEN [status |-> "return", lists |-> done, printed |-> <<>>]
  ELSE IF lists[1].status # "return"
       THEN [status |-> lists[1].status, lists |-> <<>>,
             printed |-> lists[1].printed]
       ELSE BuildLists(Tail(lists), Append(done, lists[1].entries))

\* ROOT_FILE_CONTENTS % vars()
RootContent(channel, version) ==
  [status |-> "return", printed |-> <<>>,
   content |-> [page |-> "root", channel |-> channel,
                channel_title |-> MakeTitleCase(channel),
                version |-> version, lists |-> <<>>]]

\* C_FILE_CONTENTS % vars(), after the three lists
CContent(dir_files, channel, version) ==
  LET prefix == <<"pepper_">> \o channel \o <<"/c">>
      b == BuildLists(
             << MakeReSTListFromFiles(prefix, dir_files, C_INTERFACE_WILDCARDS, None),
                MakeReSTListFromFiles(prefix, dir_files, C_STRUCT_WILDCARDS, None),
                MakeReSTListFromFiles(prefix, dir_files, FILE_WILDCARDS, None) >>,
             <<>>)
  IN  [status |-> b.status, printed |-> b.printed,
       content |-> [page |-> "c", channel |-> channel,
                    channel_title |-> MakeTitleCase(channel),
                    channel_alt |-> MakeChannelAlt(channel),
                    version |-> version, lists |-> b.lists]]

\* CPP_FILE_CONTENTS % vars(), after the two lists
CppContent(dir_files, channel, version) ==
  LET prefix == <<"pepper_">> \o channel \o <<"/cpp">>
      b == BuildLists(
             << MakeReSTListFromFiles(prefix, dir_files, CPP_CLASSES_WILDCARDS,
                                      Some(CPP_CLASSES_EXCLUDES)),
                MakeReSTListFromFiles(prefix, dir_files, FILE_WILDCARDS, None) >>,
             <<>>)
  IN  [status |-> b.status, printed |-> b.printed,
       content |-> [page |-> "cpp", channel |-> channel,
                    channel_title |-> MakeTitleCase(channel),
                    channel_alt |-> MakeChannelAlt(channel),
                    version |-> version, lists |-> b.lists]]

\* a file: absent, or its content
Absent == [exists |-> FALSE, content |-> <<>>]
File(content) == [exists |-> TRUE, content |-> content]

\* a generator that opens the output file before it builds the page
WriteOutputOpenFirst(page, file) ==
  IF page.status = "return"
  THEN [status |-> "return", file |-> File(<<page.content>>)]
  ELSE [status |-> page.status, file |-> File(<<>>)]

\* The tail of each generator: the page goes to a StringIO, and only then
\* is out_filename opened for writing and filled.  An exception raised while
\* the page was built leaves before the open.
WriteOutput(page, file) ==
  IF page.status = "return"
  THEN [status |-> "return", file |-> File(<<page.content>>)]
  ELSE [status |-> page.status, file |-> file]

\* sum((options.c, options.cpp, options.root))
FlagSum(c, cpp, root) ==
  (IF c THEN 1 ELSE 0) + (IF cpp THEN 1 ELSE 0) + (IF root THEN 1 ELSE 0)

FlagCheckAtLeastOne(c, cpp, root) == FlagSum(c, cpp, root) >= 1

\* the test that lets main() go on to the generators
FlagCheck(c, cpp, root) == FlagSum(c, cpp, root) = 1

\* main() from the checks of the options to the branch it takes
MainBranch(channel, c, cpp, root) ==
  IF channel = None \/ channel[1] \notin VALID_CHANNELS THEN "usage"
  ELSE IF ~FlagCheck(c, cpp, root) THEN "usage"
  ELSE IF c THEN "GenerateCIndex"
  ELSE IF cpp THEN "GenerateCppIndex"
  ELSE IF root THEN "GenerateRootIndex"
  ELSE "assert"

(***************************************************************************)
(* rst_index.main run once                                                 *)
(***************************************************************************)
F_struct_ppb_a == P_struct_ppb \o <<"a">> \o S_html
F_struct_pp_a  == P_struct_pp \o <<"a">> \o S_html
F_union_a_html == P_union_pp \o <<"a">> \o S_html
F_class_a      == P_classpp \o <<"a">> \o S_html
F_class_a_mem  == P_classpp \o <<"a">> \o S_members \o S_html
F_class_lower  == <<"c","l","a","s","s","p","p","_","1","_","1","a">> \o S_html
F_a_8h_html    == <<"a">> \o S_8h \o S_html

IndexFiles ==
  {F_struct_ppb_a, F_struct_pp_a, F_union_a_html, F_class_a, F_class_a_mem,
   F_class_lower, F_a_8h_html, F_index}

\* the page an earlier run left in the output file
OldFile == File(<<[page |-> "old"]>>)

V_65 == <<"6","5">>

\* some order in which os.listdir gives the names of a set of files
RECURSIVE SomeOrder(_)
SomeOrder(files) ==
  IF files = {} THEN <<>>
  ELSE LET f == CHOOSE x \in files : TRUE IN <<f>> \o SomeOrder(files \ {f})

\* os.listdir(options.directory)
ListDir(dir) == IF dir = None THEN Unlistable ELSE Listed(SomeOrder(dir[1]))

IxIdle ==
  /\ ix_channel = None /\ ix_c = FALSE /\ ix_cpp = FALSE /\ ix_root = FALSE
  /\ ix_dir = None /\ ix_pc = "idle" /\ ix_ran = {} /\ ix_file = Absent
  /\ ix_exit = "" /\ ix_stdout = <<>>

IxInit ==
  /\ ix_channel \in {None} \cup {Some(ch) : ch \in VALID_CHANNELS \cup {C_canary}}
  /\ ix_c \in BOOLEAN /\ ix_cpp \in BOOLEAN /\ ix_root \in BOOLEAN
  /\ ix_dir \in {None} \cup
       {Some(d) : d \in {e \in SUBSET IndexFiles : Cardinality(e) <= MaxDirFiles}}
  /\ ix_pc = "main"
  /\ ix_ran = {}
  /\ ix_file \in {Absent, OldFile}
  /\ ix_exit = ""
  /\ ix_stdout = <<>>

\* main() up to the call of a generator; parser.error() exits with status 2
IxMain ==
  /\ ix_pc = "main"
  /\ LET b == MainBranch(ix_channel, ix_c, ix_cpp, ix_root) IN
       /\ ix_pc' = IF b \in {"usage", "assert"} THEN "exit" ELSE b
       /\ ix_exit' = IF b = "usage" THEN "usage error"
                     ELSE IF b = "assert" THEN "AssertionError" ELSE ""
  /\ UNCHANGED <<ix_channel, ix_c, ix_cpp, ix_root, ix_dir, ix_ran, ix_file,
                 ix_stdout, nm_vars, ls_vars, lo_vars>>

\* a generator from its call to its return or its exception
IxGenerate(name, page) ==
  /\ ix_pc = name
  /\ LET w == WriteOutput(page, ix_file) IN
       /\ ix_file' = w.file
       /\ ix_exit' = IF w.status = "return" THEN "0" ELSE w.status
  /\ ix_ran' = ix_ran \cup {name}
  /\ ix_stdout' = ix_stdout \o page.printed
  /\ ix_pc' = "exit"
  /\ UNCHANGED <<ix_channel, ix_c, ix_cpp, ix_root, ix_dir,
                 nm_vars, ls_vars, lo_vars>>

GenerateRootIndex ==
  IxGenerate("GenerateRootIndex", RootContent(ix_channel[1], V_65))

GenerateCIndex ==
  IxGenerate("GenerateCIndex", CContent(ListDir(ix_dir), ix_channel[1], V_65))

GenerateCppIndex ==
  IxGenerate("GenerateCppIndex", CppContent(ListDir(ix_dir), ix_channel[1], V_65))

(***************************************************************************)
(* remoting_ios_localize                                                   *)
(***************************************************************************)
LOCALIZABLE_STRINGS == <<"Localizable.strings">>
INFOPLIST_STRINGS   == <<"InfoPlist.strings">>

LocalizeException == "LocalizeException"

\* s.replace(old, new) for one-character old
RECURSIVE Replace(_, _, _)
Replace(s, old, new) ==
  IF s = <<>> THEN <<>>
  ELSE (IF s[1] = old THEN new ELSE <<s[1]>>) \o Replace(Tail(s), old, new)

\* os.path.join(a, b)
join(a, b) ==
  IF b # <<>> /\ b[1] = "/" THEN b
  ELSE IF a = <<>> \/ a[Len(a)] = "/" THEN a \o b
  ELSE a \o <<"/">> \o b

format_lproj_dir(to_dir, locale) ==
  join(to_dir, Replace(locale, "-", <<"_">>) \o <<".lproj">>)

\* " ".join(['"%s"' % x for x in items])
RECURSIVE format_quoted_list(_)
format_quoted_list(items) ==
  IF items = <<>> THEN <<>>
  ELSE <<"\"">> \o items[1] \o <<"\"">>
         \o (IF Len(items) > 1 THEN <<" ">> ELSE <<>>)
         \o format_quoted_list(Tail(items))

\* the list outputs of get_outputs before it is formatted
RECURSIVE OutputPaths(_, _)
OutputPaths(to_dir, locales) ==
  IF locales = <<>> THEN <<>>
  ELSE LET lproj_dir == format_lproj_dir(to_dir, locales[1]) IN
       <<join(lproj_dir, LOCALIZABLE_STRINGS), join(lproj_dir, INFOPLIST_STRINGS)>>
         \o OutputPaths(to_dir, Tail(locales))

RECURSIVE LocalizableOnly(_, _)
LocalizableOnly(to_dir, locales) ==
  IF locales = <<>> THEN <<>>
  ELSE <<join(format_lproj_dir(to_dir, locales[1]), LOCALIZABLE_STRINGS)>>
         \o LocalizableOnly(to_dir, Tail(locales))

get_outputs_localizable_only(to_dir, locales) ==
  format_quoted_list(LocalizableOnly(to_dir, locales))

get_outputs(to_dir, locales) == format_quoted_list(OutputPaths(to_dir, locales))

\* from_dir/<locale>.pak for each locale
RECURSIVE InputPaths(_, _)
InputPaths(from_dir, locales) ==
  IF locales = <<>> THEN <<>>
  ELSE <<join(from_dir, locales[1] \o <<".pak">>)>>
         \o InputPaths(from_dir, Tail(locales))

get_inputs(from_dir, locales) == format_quoted_list(InputPaths(from_dir, locales))

decode_and_escape(data) ==
  Replace(Replace(data, "\\", <<"\\", "\\">>), "\"", <<"\\", "\"">>)

\* dict.get(key)
Get(map, key) == IF key \in DOMAIN map THEN Some(map[key]) ELSE None

\* "not id_value": None and 0 are false
NotId(id_value) == id_value = None \/ id_value[1] = 0

\* "not data": None and the empty string are false
NotData(data) == data = None \/ data[1] = <<>>

\* One turn of the loop over localizable_ids: the line written, or the
\* LocalizeException raised.
LocalizableLine(id_map, pack, id_str) ==
  LET id_value == Get(id_map, id_str) IN
  IF NotId(id_value)
  THEN [status |-> LocalizeException, line |-> <<>>,
        message |-> "Could not find \"%s\" in %s"]
  ELSE LET localized_data == Get(pack, id_value[1]) IN
       IF NotData(localized_data)
       THEN [status |-> LocalizeException, line |-> <<>>,
             message |-> "Could not find localized string in %s for %s (%d)"]
       ELSE [status |-> "return", message |-> "",
             line |-> <<"\"">> \o <<id_str>> \o <<"\" = \"">>
                        \o decode_and_escape(localized_data[1]) \o <<"\";\n">>]

\* LocalizedStringJinja2Adapter.__getattr__(name)
Adapter_getattr(id_map, pack, name) ==
  LET id_value == Get(id_map, name) IN
  IF NotId(id_value)
  THEN [status |-> LocalizeException, value |-> <<>>,
        message |-> "Could not find id %s in resource header"]
  ELSE LET data == Get(pack, id_value[1]) IN
       IF NotData(data)
       THEN [status |-> LocalizeException, value |-> <<>>,
             message |-> "Could not find string with id %s (%d) in data pack"]
       ELSE [status |-> "return", value |-> decode_and_escape(data[1]),
             message |-> ""]

\* infoplist_template.render(ids = adapter), the template being the list of
\* the names it looks up as {{ ids.NAME }}, each on a line of its own
render(template, id_map, pack) ==
  LET got == [i \in DOMAIN template |-> Adapter_getattr(id_map, pack, template[i])]
      bad == {i \in DOMAIN template : got[i].status # "return"}
      first == CHOOSE i \in bad : \A j \in bad : i <= j
  IN  IF bad # {}
      THEN [status |-> got[first].status, text |-> <<>>,
            message |-> got[first].message]
      ELSE [status |-> "return", message |-> "",
            text |-> [i \in DOMAIN template |-> got[i].value]]

(***************************************************************************)
(* remoting_ios_localize.DoMain run once                                   *)
(***************************************************************************)
MaxLocales == 2
MaxIds == 2

L_en    == <<"e","n">>
L_pt_BR == <<"p","t","-","B","R">>

LocalePool == {L_en, L_pt_BR}

IdNames == {"IDS_X", "IDS_Y"}

\* the maps read_resources_header gives for three headers
IdMaps ==
  { ("IDS_X" :> 1 @@ "IDS_Y" :> 2),
    ("IDS_X" :> 1),
    ("IDS_X" :> 0 @@ "IDS_Y" :> 2) }

D_hi    == <<"h","i">>
D_hello == <<"h","e","l","l","o">>
D_quote == <<"q","\"","\\">>

\* pack.resources of three data packs
PackPool ==
  { (0 :> D_hi @@ 1 :> D_hello @@ 2 :> D_quote),
    (0 :> D_hi @@ 1 :> D_hello),
    (0 :> D_hi @@ 1 :> <<>> @@ 2 :> D_hi) }

Templates == {<<>>, <<"IDS_Y">>, <<"IDS_X">>}

ToDirs == {<<"out">>, <<"gen", "/">>}

FROM_DIR == <<"pak">>

Range(f) == {f[i] : i \in DOMAIN f}

\* the lines an earlier run left in a strings file
OldStrings == File(<< <<"old">> >>)

AllPaths(to_dir) ==
  {join(format_lproj_dir(to_dir, l), n) :
     l \in LocalePool, n \in {LOCALIZABLE_STRINGS, INFOPLIST_STRINGS}}

LoIdle ==
  /\ lo_mode = "" /\ lo_to_dir = <<>> /\ lo_locales = <<>> /\ lo_id_map = <<>>
  /\ lo_packs = <<>> /\ lo_ids = <<>> /\ lo_template = <<>> /\ lo_pc = "idle"
  /\ lo_locale = 0 /\ lo_id = 0 /\ lo_fs = <<>> /\ lo_touched = {}
  /\ lo_open = None /\ lo_stdout = <<>> /\ lo_error = None /\ lo_exit = ""

LoInit ==
  /\ lo_mode \in {"print_inputs", "print_outputs", "generate"}
  /\ lo_to_dir \in ToDirs
  /\ lo_locales \in SeqsUpTo(LocalePool, MaxLocales)
  /\ lo_packs \in [Range(lo_locales) -> PackPool]
  /\ IF lo_mode = "generate"
     THEN /\ lo_id_map \in IdMaps
          /\ lo_ids \in SeqsUpTo(IdNames, MaxIds)
          /\ lo_template \in Templates
          /\ lo_fs \in {[p \in AllPaths(lo_to_dir) |-> f] : f \in {Absent, OldStrings}}
     ELSE /\ lo_id_map = <<>> /\ lo_ids = <<>> /\ lo_template = <<>>
          /\ lo_fs = [p \in AllPaths(lo_to_dir) |-> Absent]
  /\ lo_pc = "main"
  /\ lo_locale = 0 /\ lo_id = 0
  /\ lo_touched = {}
  /\ lo_open = None
  /\ lo_stdout = <<>>
  /\ lo_error = None
  /\ lo_exit = ""

LoLocale     == lo_locales[lo_locale]
LoPack       == lo_packs[LoLocale]
LoLprojDir   == format_lproj_dir(lo_to_dir, LoLocale)
LoLocalizablePath == join(LoLprojDir, LOCALIZABLE_STRINGS)
LoInfoPlistPath   == join(LoLprojDir, INFOPLIST_STRINGS)

\* if not locales: parser.error(...)
LoUsage ==
  /\ lo_pc = "main" /\ lo_locales = <<>>
  /\ lo_pc' = "exit" /\ lo_exit' = "usage error"
  /\ UNCHANGED <<lo_mode, lo_to_dir, lo_locales, lo_id_map, lo_packs, lo_ids,
                 lo_template, lo_locale, lo_id, lo_fs, lo_touched, lo_open,
                 lo_stdout, lo_error, nm_vars, ls_vars, ix_vars>>

\* if options.print_input: return get_inputs(options.from_dir, locales)
LoPrintInputs ==
  /\ lo_pc = "main" /\ lo_locales # <<>> /\ lo_mode = "print_inputs"
  /\ lo_stdout' = get_inputs(FROM_DIR, lo_locales)
  /\ lo_pc' = "exit" /\ lo_exit' = "0"
  /\ UNCHANGED <<lo_mode, lo_to_dir, lo_locales, lo_id_map, lo_packs, lo_ids,
                 lo_template, lo_locale, lo_id, lo_fs, lo_touched, lo_open,
                 lo_error, nm_vars, ls_vars, ix_vars>>

\* if options.print_output: return get_outputs(options.to_dir, locales)
LoPrintOutputs ==
  /\ lo_pc = "main" /\ lo_locales # <<>> /\ lo_mode = "print_outputs"
  /\ lo_stdout' = get_outputs(lo_to_dir, lo_locales)
  /\ lo_pc' = "exit" /\ lo_exit' = "0"
  /\ UNCHANGED <<lo_mode, lo_to_dir, lo_locales, lo_id_map, lo_packs, lo_ids,
                 lo_template, lo_locale, lo_id, lo_fs, lo_touched, lo_open,
                 lo_error, nm_vars, ls_vars, ix_vars>>

\* generate() is entered: the header, the ID list and the template are read
LoGenerate ==
  /\ lo_pc = "main" /\ lo_locales # <<>> /\ lo_mode = "generate"
  /\ lo_pc' = "locale" /\ lo_locale' = 1
  /\ UNCHANGED <<lo_mode, lo_to_dir, lo_locales, lo_id_map, lo_packs, lo_ids,
                 lo_template, lo_id, lo_fs, lo_touched, lo_open, lo_stdout,
                 lo_error, lo_exit, nm_vars, ls_vars, ix_vars>>

\* the head of "for locale in locales": the pack is read, the lproj directory
\* made, and Localizable.strings opened with mode 'w'
LoOpenLocalizable ==
  /\ lo_pc = "locale" /\ lo_locale <= Len(lo_locales)
  /\ lo_fs' = [lo_fs EXCEPT ![LoLocalizablePath] = File(<<>>)]
  /\ lo_touched' = lo_touched \cup {LoLocalizablePath}
  /\ lo_open' = Some(LoLocalizablePath)
  /\ lo_id' = 1
  /\ lo_pc' = "ids"
  /\ UNCHANGED <<lo_mode, lo_to_dir, lo_locales, lo_id_map, lo_packs, lo_ids,
                 lo_template, lo_locale, lo_stdout, lo_error, lo_exit,
                 nm_vars, ls_vars, ix_vars>>

\* one turn of "for id_str in localizable_ids": a line is written, or the
\* LocalizeException leaves the with block (the file is closed), is reported
\* and re-raised, and DoMain exits with status 1
LoLocalizableId ==
  /\ lo_pc = "ids" /\ lo_id <= Len(lo_ids)
  /\ LET r == LocalizableLine(lo_id_map, LoPack, lo_ids[lo_id]) IN
       IF r.status = "return"
       THEN /\ lo_fs' = [lo_fs EXCEPT ![LoLocalizablePath] =
                           File(Append(@.content, r.line))]
            /\ lo_id' = lo_id + 1
            /\ UNCHANGED <<lo_pc, lo_open, lo_error, lo_exit>>
       ELSE /\ lo_error' = Some(<<r.status, r.message>>)
            /\ lo_open' = None
            /\ lo_pc' = "exit" /\ lo_exit' = "1"
            /\ UNCHANGED <<lo_fs, lo_id>>
  /\ UNCHANGED <<lo_mode, lo_to_dir, lo_locales, lo_id_map, lo_packs, lo_ids,
                 lo_template, lo_locale, lo_touched, lo_stdout,
                 nm_vars, ls_vars, ix_vars>>

\* the loop over the IDs is over: the with block closes Localizable.strings
LoCloseLocalizable ==
  /\ lo_pc = "ids" /\ lo_id > Len(lo_ids)
  /\ lo_open' = None
  /\ lo_pc' = "infoplist"
  /\ UNCHANGED <<lo_mode, lo_to_dir, lo_locales, lo_id_map, lo_packs, lo_ids,
                 lo_template, lo_locale, lo_id, lo_fs, lo_touched, lo_stdout,
                 lo_error, lo_exit, nm_vars, ls_vars, ix_vars>>

\* InfoPlist.strings is opened with mode 'w', the template rendered and the
\* text written; a LocalizeException of the adapter leaves the file empty
LoInfoPlist ==
  /\ lo_pc = "infoplist"
  /\ lo_touched' = lo_touched \cup {LoInfoPlistPath}
  /\ LET r == render(lo_template, lo_id_map, LoPack) IN
       IF r.status = "return"
       THEN /\ lo_fs' = [lo_fs EXCEPT ![LoInfoPlistPath] = File(r.text)]
            /\ lo_locale' = lo_locale + 1
            /\ lo_pc' = "locale"
            /\ UNCHANGED <<lo_error, lo_exit>>
       ELSE /\ lo_fs' = [lo_fs EXCEPT ![LoInfoPlistPath] = File(<<>>)]
            /\ lo_error' = Some(<<r.status, r.message>>)
            /\ lo_pc' = "exit" /\ lo_exit' = "1"
            /\ UNCHANGED lo_locale
  /\ UNCHANGED <<lo_mode, lo_to_dir, lo_locales, lo_id_map, lo_packs, lo_ids,
                 lo_template, lo_id, lo_open, lo_stdout, nm_vars, ls_vars, ix_vars>>

\* every locale is done: generate() returns and DoMain returns ""
LoReturn ==
  /\ lo_pc = "locale" /\ lo_locale > Len(lo_locales)
  /\ lo_pc' = "exit" /\ lo_exit' = "0"
  /\ UNCHANGED <<lo_mode, lo_to_dir, lo_locales, lo_id_map, lo_packs, lo_ids,
                 lo_template, lo_locale, lo_id, lo_fs, lo_touched, lo_open,
                 lo_stdout, lo_error, nm_vars, ls_vars, ix_vars>>

(***************************************************************************)
(* Specifications                                                          *)
(***************************************************************************)
\* GetName on one filename
NameInit == NmInit /\ LsIdle /\ IxIdle /\ LoIdle
NameNext == NmGetName
SpecName == NameInit /\ [][NameNext]_vars

\* MakeReSTListFromFiles on one directory
ListInit == NmIdle /\ LsInit /\ IxIdle /\ LoIdle
ListNext == LsMakeReSTListFromFiles
SpecList == ListInit /\ [][ListNext]_vars

\* rst_index.main
IndexInit == NmIdle /\ LsIdle /\ IxInit /\ LoIdle
IndexNext ==
  \/ IxMain
  \/ GenerateRootIndex
  \/ GenerateCIndex
  \/ GenerateCppIndex
SpecIndex == IndexInit /\ [][IndexNext]_vars

\* remoting_ios_localize.DoMain
LocalizeInit == NmIdle /\ LsIdle /\ IxIdle /\ LoInit
LocalizeNext ==
  \/ LoUsage
  \/ LoPrintInputs
  \/ LoPrintOutputs
  \/ LoGenerate
  \/ LoOpenLocalizable
  \/ LoLocalizableId
  \/ LoCloseLocalizable
  \/ LoInfoPlist
  \/ LoReturn
SpecLocalize == LocalizeInit /\ [][LocalizeNext]_vars

\* any one of the four
Init == NameInit \/ ListInit \/ IndexInit \/ LocalizeInit
Next == NameNext \/ ListNext \/ IndexNext \/ LocalizeNext
Spec == Init /\ [][Next]_vars

(***************************************************************************)
(* Properties of GetName (SpecName)                                        *)
(***************************************************************************)
\* the name that is in none of the eight families and is no header name
NmUnmatched ==
  nm_pc = "done" /\ Hits(NmRoot) = {} /\ ~endswith(NmRoot, S_8h)

\* C2: for a filename that starts with none of the eight prefixes and does
\* not end in '_8h', GetName prints 'No match: <name>' and then returns
\* normally, with the empty display name.
C2_UnmatchedReturnsEmptyName ==
  NmUnmatched =>
    /\ nm_result.printed = <<NoMatch(NmRoot)>>
    /\ nm_result.status = "return"
    /\ nm_result.value = <<>>

\* C3 as the specification has it: 'struct_p_p_b__audio_1_1', with or without
\* '.html', gives exactly PPB_Audio.
C3_SpecExampleGivesPPB_Audio ==
  (nm_pc = "done" /\ NmRoot = F_audio_1_1) =>
    (nm_result.status = "return" /\ nm_result.value = N_PPB_Audio)

\* the display names of '<prefix>a' and '<prefix>a__1__1', family by family
FamilyExamples ==
  << <<"P","P","B","_","a">>, <<"P","P","P","_","a">>, <<"P","P","_","a">>,
     <<"P","P","_","a">>, <<"A">>, Ext_ \o <<"A">>, Internal_ \o <<"A">>,
     Internal_ \o <<"A">> >>

\* C3, amended: for every filename of a known prefix family GetName returns
\* normally and prints nothing; the name is the family's display prefix
\* ('Ext::', 'Internal::' or nothing) and the decoded remainder, less a
\* trailing version suffix: '<prefix>a' and '<prefix>a__1__1' give PPB_a,
\* PPP_a, PP_a, PP_a, A, Ext::A, Internal::A, Internal::A for the eight
\* families.  'struct_p_p_b___audio__1__1', the file name doxygen gives
\* PPB_Audio_1_1, yields exactly PPB_Audio, with or without '.html', and
\* 'struct_p_p_b__audio_1_1' yields PPB_audio11.
C3_FamilyDisplayNames ==
  NmInFamily =>
    /\ nm_result.status = "return"
    /\ nm_result.printed = <<>>
    /\ startswith(nm_result.value, NmRule.out)
    /\ Len(nm_result.value) <= Len(NmRule.out) + Len(NmMangle)
    /\ \A i \in DOMAIN FamilyExamples :
         NmRoot \in {PrefixRules[i].prefix \o <<"a">>,
                     PrefixRules[i].prefix \o <<"a","_","_","1","_","_","1">>}
           => nm_result.value = FamilyExamples[i]
    /\ (NmRoot = F_Audio_1_1 => nm_result.value = N_PPB_Audio)
    /\ (NmRoot = F_audio_1_1 => nm_result.value = N_PPB_audio11)

C3_Witness ==
  /\ NmInFamily
  /\ nm_filename = F_Audio_1_1 \o S_html
  /\ nm_result.value = N_PPB_Audio

\* the underscores of s
RECURSIVE CountUnderscores(_)
CountUnderscores(s) ==
  IF s = <<>> THEN 0
  ELSE (IF s[1] = "_" THEN 1 ELSE 0) + CountUnderscores(Tail(s))

\* the double underscores of s, read from the left
RECURSIVE CountDoubles(_)
CountDoubles(s) ==
  IF Len(s) < 2 THEN 0
  ELSE IF s[1] = "_" /\ s[2] = "_" THEN 1 + CountDoubles(Drop(s, 2))
  ELSE CountDoubles(Tail(s))

\* s read from the left: a double underscore is one literal underscore, a
\* single underscore is dropped and puts the next character in upper case
RECURSIVE Unmangle(_)
Unmangle(s) ==
  IF s = <<>> THEN <<>>
  ELSE IF s[1] # "_" THEN <<s[1]>> \o Unmangle(Tail(s))
  ELSE IF Len(s) = 1 THEN <<>>
  ELSE IF s[2] = "_" THEN <<"_">> \o Unmangle(Drop(s, 2))
  ELSE <<Upper(s[2])>> \o Unmangle(Drop(s, 2))

\* C4 as stated: in the decoded part every double underscore gives exactly one
\* literal underscore of the returned name and every single underscore gives
\* none, an underscore at the very start and the underscores of a trailing
\* version number included; so the returned name has as many underscores as
\* the decoded part has double underscores.
C4_EveryDoubleUnderscoreKept ==
  NmInFamily => CountUnderscores(nm_result.value) = CountDoubles(NmMangle)

\* C4, amended: the decoded part is read as if the single underscore that
\* ends the stripped prefix still preceded it.  Read so, from the left, every
\* double underscore gives one literal underscore and every single underscore
\* gives none and puts the character after it in upper case; an underscore at
\* the very start of the decoded part is therefore the second of a pair and
\* gives a literal underscore.  The returned name is the family's display
\* prefix and that text, less one trailing '_<digit>_<digit>': the literal
\* underscores of a trailing version number are not in the returned name.
C4_UnderscoreDecoding ==
  NmInFamily =>
    nm_result.value =
      StripVersion(NmRule.out \o Unmangle(<<"_">> \o NmMangle))

C4_Witness ==
  /\ NmInFamily
  /\ NmMangle = <<"_", "a", "_", "_", "1", "_", "_", "1">>
  /\ nm_result.value = <<"_", "a">>

\* C10 as stated: some filename starts with more than one of the eight
\* prefixes, one of them a leading substring of another, and gets another
\* display name when the prefixes are tested in another order.
C10_OrderDependent ==
  \E g \in NameInputs \cup {nm_filename} :
    \E i, j \in Hits(splitext(g)) :
      /\ i # j
      /\ startswith(PrefixRules[j].prefix, PrefixRules[i].prefix)
      /\ ApplyRule(i, splitext(g)) # ApplyRule(j, splitext(g))

\* C10, amended: none of the eight prefixes is a leading substring of
\* another, so no filename starts with more than one of them, and the
\* display name GetName returns is the one every branch whose prefix the
\* filename starts with gives: the order of the eight tests does not matter.
C10_PrefixesExclusive ==
  /\ \A i, j \in DOMAIN PrefixRules :
       i # j => ~startswith(PrefixRules[j].prefix, PrefixRules[i].prefix)
  /\ Cardinality(Hits(NmRoot)) <= 1
  /\ NmInFamily =>
       \A i \in Hits(NmRoot) : nm_result.value = ApplyRule(i, NmRoot)

C10_Witness ==
  /\ NmInFamily
  /\ startswith(NmRoot, P_classpp_ext)
  /\ startswith(nm_result.value, Ext_)

(***************************************************************************)
(* Properties of MakeReSTListFromFiles (SpecList)                          *)
(***************************************************************************)
\* the names of the directory that match an inclusion pattern and no
\* exclusion pattern
LsSelected ==
  {f \in Range(ls_dir) :
     /\ \E i \in DOMAIN ls_matches : fnmatch(f, ls_matches[i])
     /\ ls_excludes = None
          \/ \A i \in DOMAIN ls_excludes[1] : ~fnmatch(f, ls_excludes[1][i])}

\* the filenames of the entries of the list, in the order of the list
LsListed == [i \in DOMAIN ls_result.entries |-> ls_result.entries[i][3]]

\* C5: for any directory, inclusion patterns and optional exclusion patterns,
\* MakeReSTListFromFiles lists exactly the filenames of the directory that
\* match an inclusion pattern and no exclusion pattern, in ascending order of
\* the filename.
C5_ListsSelectedFilesInOrder ==
  ls_pc = "done" =>
    /\ ls_result.status = "return"
    /\ Range(LsListed) = LsSelected
    /\ \A i, j \in DOMAIN LsListed : i < j => StrLessEq(LsListed[i], LsListed[j])

\* What does hold of the list: whenever MakeReSTListFromFiles returns, its
\* entries are the selected filenames in ascending order of the filename.
C5_WhenItReturns ==
  (ls_pc = "done" /\ ls_result.status = "return") =>
    /\ Range(LsListed) = LsSelected
    /\ \A i, j \in DOMAIN LsListed : i < j => StrLessEq(LsListed[i], LsListed[j])

(***************************************************************************)
(* Properties of rst_index.main (SpecIndex)                                *)
(***************************************************************************)
IxValidChannel == ix_channel # None /\ ix_channel[1] \in {C_stable, C_beta, C_dev}

IxOneFlag ==
  \/ ix_c /\ ~ix_cpp /\ ~ix_root
  \/ ~ix_c /\ ix_cpp /\ ~ix_root
  \/ ~ix_c /\ ~ix_cpp /\ ix_root

\* the generator of the flag that is set
IxGenerator ==
  IF ix_c THEN "GenerateCIndex"
  ELSE IF ix_cpp THEN "GenerateCppIndex" ELSE "GenerateRootIndex"

\* C6: main() runs a generator only when the channel is stable, beta or dev
\* and exactly one of --c, --cpp, --root is set; then the generator of that
\* flag and no other runs, and the assert(False) branch is not reached; for
\* every other combination main() ends with a usage error, no generator runs
\* and the output file is not written.
C6_OneGeneratorOrUsageError ==
  /\ ix_exit # "AssertionError"
  /\ ix_pc \in {"main", "idle"} => ix_ran = {}
  /\ ix_pc \notin {"main", "idle"} =>
       IF IxValidChannel /\ IxOneFlag
       THEN /\ ix_pc \in {IxGenerator, "exit"}
            /\ ix_ran = IF ix_pc = "exit" THEN {IxGenerator} ELSE {}
            /\ ix_exit # "usage error"
       ELSE /\ ix_pc = "exit"
            /\ ix_exit = "usage error"
            /\ ix_ran = {}
            /\ ix_file \in {Absent, OldFile}

C6_Witness ==
  /\ ix_pc = "exit" /\ ix_exit = "0"
  /\ ~ix_c /\ ix_cpp /\ ~ix_root
  /\ ix_ran = {"GenerateCppIndex"}
  /\ ix_file.exists /\ ix_file # OldFile

\* C9: a generator that fails while the page is built (the directory cannot
\* be listed, GetName fails on a selected file) leaves the output file as it
\* was: not created, not truncated, not partly written.
C9_NoPartialOutputOnError ==
  [][ (ix_pc' = "exit" /\ ix_ran' # {} /\ ix_exit' # "0") => ix_file' = ix_file ]_vars

C9_Witness ==
  /\ ix_pc = "exit"
  /\ ix_ran = {"GenerateCppIndex"}
  /\ ix_exit = "UnboundLocalError"
  /\ ix_stdout # <<>>
  /\ ix_file = OldFile

(***************************************************************************)
(* Properties of remoting_ios_localize (SpecLocalize)                      *)
(***************************************************************************)
\* generate() has ended with a LocalizeException of the loop over the IDs
LoRaisedInLoop ==
  /\ lo_pc = "exit" /\ lo_error # None
  /\ lo_error[1][1] = LocalizeException
  /\ lo_error[1][2] \in {"Could not find \"%s\" in %s",
                         "Could not find localized string in %s for %s (%d)"}

\* the ID the loop was at is not in the map, or its string not in the pack
LoIdMissing ==
  \/ lo_ids[lo_id] \notin DOMAIN lo_id_map
  \/ lo_id_map[lo_ids[lo_id]] \notin DOMAIN LoPack

\* C1: when an ID of the localizable list is missing from the map, or its
\* string from the locale's pack, and the LocalizeException is raised, this
\* invocation has created, truncated or partly filled no file, for this
\* locale or an earlier one.
C1_NoPartialOutputOnMissingId ==
  (LoRaisedInLoop /\ LoIdMissing) =>
    /\ lo_touched = {}
    /\ \A p \in DOMAIN lo_fs : lo_fs[p] \in {Absent, OldStrings}

\* every ID of the list is in the map and its string in the locale's pack
LoAllFound ==
  \A i \in DOMAIN lo_ids :
    /\ lo_ids[i] \in DOMAIN lo_id_map
    /\ lo_id_map[lo_ids[i]] \in DOMAIN LoPack

\* a string with every backslash and every double quote behind a backslash
RECURSIVE Escaped(_)
Escaped(str) ==
  IF str = <<>> THEN <<>>
  ELSE (IF str[1] \in {"\\", "\""} THEN <<"\\", str[1]>> ELSE <<str[1]>>)
         \o Escaped(Tail(str))

\* C7: when every ID of the list is in the map and its string in the pack of
\* the locale, the Localizable.strings of the locale holds one line
\* "<ID>" = "<escaped string>"; per entry of the list, in the order of the
\* list, and nothing else.
C7_OneLinePerId ==
  ((lo_pc = "infoplist" \/ LoRaisedInLoop) /\ LoAllFound) =>
    lo_fs[LoLocalizablePath] =
      File([i \in DOMAIN lo_ids |->
              <<"\"", lo_ids[i], "\" = \"">>
                \o Escaped(LoPack[lo_id_map[lo_ids[i]]]) \o <<"\";\n">>])

\* the items of a list of quoted items: s is read from the left, a quote
\* opens an item and the next quote closes it
RECURSIVE QuotedItems(_, _, _)
QuotedItems(s, item, inside) ==
  IF s = <<>> THEN <<>>
  ELSE IF s[1] = "\""
       THEN IF inside THEN <<item>> \o QuotedItems(Tail(s), <<>>, FALSE)
            ELSE QuotedItems(Tail(s), <<>>, TRUE)
  ELSE IF inside THEN QuotedItems(Tail(s), Append(item, s[1]), TRUE)
  ELSE QuotedItems(Tail(s), item, FALSE)

\* <to_dir>/<locale with '-' replaced by '_'>.lproj/<name>
LoExpectedPath(locale, name) ==
  (IF lo_to_dir[Len(lo_to_dir)] = "/" THEN lo_to_dir ELSE lo_to_dir \o <<"/">>)
    \o [i \in DOMAIN locale |-> IF locale[i] = "-" THEN "_" ELSE locale[i]]
    \o <<".lproj", "/">> \o name

\* C8: the paths get_outputs lists for to_dir and the locales are exactly the
\* files a successful generate() with the same to_dir and locales has
\* written: Localizable.strings and InfoPlist.strings of each locale, in
\* <to_dir>/<locale with '-' replaced by '_'>.lproj.
C8_OutputsListedAreWritten ==
  (lo_mode = "generate" /\ lo_pc = "exit" /\ lo_exit = "0") =>
    LET listed == Range(QuotedItems(get_outputs(lo_to_dir, lo_locales), <<>>, FALSE))
    IN  /\ listed = lo_touched
        /\ \A p \in listed : lo_fs[p].exists /\ lo_fs[p] # OldStrings
        /\ \A p \in DOMAIN lo_fs : p \notin listed => lo_fs[p] \in {Absent, OldStrings}
        /\ listed = {LoExpectedPath(lo_locales[i], n) :
                       i \in DOMAIN lo_locales,
                       n \in {LOCALIZABLE_STRINGS, INFOPLIST_STRINGS}}

C8_Witness ==
  /\ lo_mode = "generate" /\ lo_pc = "exit" /\ lo_exit = "0"
  /\ lo_locales = <<L_pt_BR, L_en>>
  /\ lo_to_dir = <<"out">>
  /\ lo_fs[<<"out", "/", "p", "t", "_", "B", "R", ".lproj", "/",
             "InfoPlist.strings">>].exists

\* generate() has ended with a LocalizeException of the adapter, raised while
\* the InfoPlist template was rendered
LoRaisedInRender ==
  /\ lo_pc = "exit" /\ lo_error # None
  /\ lo_error[1][1] = LocalizeException
  /\ lo_error[1][2] \in {"Could not find id %s in resource header",
                         "Could not find string with id %s (%d) in data pack"}

\* a name the template looks up is not in the map, or its string not in the
\* pack of the locale
LoTemplateNameMissing ==
  \E i \in DOMAIN lo_template :
    \/ lo_template[i] \notin DOMAIN lo_id_map
    \/ lo_id_map[lo_template[i]] \notin DOMAIN LoPack

\* C11: a LocalizeException is raised for a name only if the name is absent
\* from the resource ID map or the mapped integer is absent from the pack of
\* the locale, in the loop over the localizable IDs and in the adapter's
\* __getattr__ alike: an ID defined as 0 and a pack entry holding the empty
\* string are resolved like any other.
C11_RaisedOnlyWhenAbsent ==
  /\ LoRaisedInLoop => LoIdMissing
  /\ LoRaisedInRender => LoTemplateNameMissing

(***************************************************************************)
(* The wildcard lists of the generators against the rules of GetName       *)
(***************************************************************************)
\* f matches a pattern of the list
IxMatchesAny(f, patterns) == \E i \in DOMAIN patterns : fnmatch(f, patterns[i])

\* the names of the directory that the generator main() has run hands to
\* GetName
IxSelected ==
  IF ix_dir = None THEN {}
  ELSE {f \in ix_dir[1] :
          \/ /\ "GenerateCIndex" \in ix_ran
             /\ \/ IxMatchesAny(f, C_INTERFACE_WILDCARDS)
                \/ IxMatchesAny(f, C_STRUCT_WILDCARDS)
                \/ IxMatchesAny(f, FILE_WILDCARDS)
          \/ /\ "GenerateCppIndex" \in ix_ran
             /\ \/ /\ IxMatchesAny(f, CPP_CLASSES_WILDCARDS)
                   /\ ~IxMatchesAny(f, CPP_CLASSES_EXCLUDES)
                \/ IxMatchesAny(f, FILE_WILDCARDS)}

\* GetName takes one of its prefix branches or the '_8h' branch on f
IxRecognised(f) ==
  LET root == splitext(f) IN Hits(root) # {} \/ endswith(root, S_8h)

\* C12: every filename GenerateCIndex or GenerateCppIndex selects with its
\* built-in wildcard lists is recognised by GetName through a prefix rule or
\* the '_8h' rule, so that no run of a generator prints 'No match'.
C12_SelectedFilesRecognised ==
  (ix_pc = "exit" /\ ix_ran # {}) =>
    /\ \A f \in IxSelected : IxRecognised(f)
    /\ ix_stdout = <<>>

====
